---- MODULE Spec2Model ----
(***************************************************************************)
(* Vector-index lifecycle of taigok/vision-rag-app.                         *)
(*                                                                         *)
(* embed-worker handler: an S3 ObjectCreated event for the first page of a *)
(* document lists the document's page images, embeds them, and merges the  *)
(* document into the session index (sessions/{sid}/index.faiss and         *)
(* sessions/{sid}/metadata.json) by download - merge - upload.             *)
(* search-router handler: loads the session index and metadata, runs a     *)
(* top-K search and resolves the returned positions to image records.      *)
(* index-merger handler: lists the document indexes under private/ of the  *)
(* vector bucket, merges them in last-modified order into a master index   *)
(* and publishes private/master/latest.index and latest-meta.json.         *)
(* convert-worker handler: an S3 ObjectCreated event for an uploaded file   *)
(* under private/{userId}/ converts the file to page images and uploads    *)
(* them under private/{userId}/{documentId}/page_{NNNN}.png.               *)
(*                                                                         *)
(* A vector is modelled by the image it is the embedding of, <<doc, page>>.*)
(* Faiss positions and the 'index' field are 0-based, as in the code;      *)
(* position i of an index is element i+1 of the TLA+ sequence.             *)
(***************************************************************************)
EXTENDS Integers, Sequences, FiniteSets, TLC

\* ---------------------------------------------------------------- bounds
MaxInvocations == 2    \* embed-worker invocations that are started
MaxRebuilds == 2       \* index-merger invocations that are started
MaxConversions == 2    \* convert-worker invocations that are started

PageNumbers == {1, 2}     \* page numbers of a document, stored as page0001, page0002

Sessions == {"s1", "s2"}
Docs == {"A", "B"}
Workers == {1, 2}         \* slots of concurrently running embed-worker invocations

VARIABLES
    images,      \* images[s][d]: number of page images stored under sessions/s/images/d-pageNNNN.png
    events,      \* first-page ObjectCreated events not yet delivered to embed-worker
    store,       \* store[s]: the two session blobs, index.faiss and metadata.json
    inv,         \* inv[w]: local state of embed-worker invocation w
    responses,   \* the responses embed-worker invocations have returned
    started,     \* number of embed-worker invocations started since Init
    overlap,     \* history: some invocation started while another was running
    fault,       \* history: an S3 call on an existing object failed
    search,      \* local state and last response of the search-router invocation
    bucket,      \* bucket[k]: the document index stored under key k of the vector bucket
    master,      \* the two master blobs, private/master/latest.index and latest-meta.json
    merger,      \* local state and last response of the index-merger invocation
    convert      \* local state, uploads and last response of the convert-worker invocation

vars == <<images, events, store, inv, responses, started, overlap, fault, search,
          bucket, master, merger, convert>>

\* the variables of the embed-worker and of its environment
mergeVars == <<images, events, store, inv, responses, started, overlap, fault>>

\* the variables of the other handlers
mergerVars == <<bucket, master, merger>>

others == <<search, mergerVars, convert>>

\* ------------------------------------------------------------ blobs
NoIndex == [present |-> FALSE, vectors |-> <<>>]
NoMeta == [present |-> FALSE, documents |-> <<>>, form |-> "none"]

IndexBlob(vectors) == [present |-> TRUE, vectors |-> vectors]
\* form: what the blob's bytes are, a JSON object with a 'documents' mapping as
\* the handlers write it, or something else
MetaBlob(documents) == [present |-> TRUE, documents |-> documents, form |-> "documents"]

\* a metadata blob that is not JSON, or a JSON object without 'documents'
MetaForms == {"notjson", "nodocuments"}
ForeignMetaBlob(form) == [present |-> TRUE, documents |-> <<>>, form |-> form]

\* -------------------------------------------------- embed-worker helpers
\* an event key sessions/{sid}/images/{doc}-page{NNNN}.png
Key(s, d, p) == [sid |-> s, doc |-> d, page |-> p]

\* an event key private/{userId}/{documentId}/page_{NNNN}.png, the layout the
\* convert-worker uploads page images under
LegacyKey(u, d, p) == [user_id |-> u, doc |-> d, page |-> p]

LegacyUsers == {"u1"}

\* handler, line 32: parts[0] == 'sessions' and len(parts) >= 4
IsSessionKey(e) == "sid" \in DOMAIN e

\* a variant that takes every page for a first page
IsAnyPage(e) == TRUE

\* source_key.endswith('page0001.png') or source_key.endswith('page_0001.png')
IsFirstPage(e) == e.page = 1

\* list_objects_v2(Prefix = sessions/{sid}/images/{doc}-page): keys in lexicographic
\* order, which is page order for zero-padded page numbers
ListImages(s, d) == [p \in 1..images[s][d] |-> <<d, p>>]

\* the loop over response['Contents']: a page whose embedding is None is skipped,
\* the others are added to the document index in listing order
EmbedAll(keys, okPages) == SelectSeq(keys, LAMBDA k : k[2] \in okPages)

\* a variant that numbers the records from 1
MkImagesOneBased(vecs) == [k \in 1..Len(vecs) |-> [key |-> vecs[k], index |-> k]]

\* metadata['images'].append({... 'index': len(metadata['images']) ...})
MkImages(vecs) == [k \in 1..Len(vecs) |-> [key |-> vecs[k], index |-> k - 1]]

\* a variant that writes a record for every listed page
DocRecordsOfListing(keys, okPages) == MkImages(keys)

\* handler, lines 87-102: a record is appended exactly when a vector is added
DocRecords(keys, okPages) == MkImages(EmbedAll(keys, okPages))

DocMeta(s, d, imgs) == [document_id |-> d, user_id |-> s, images |-> imgs]

\* a variant that lets an empty document index through
HasEmbeddingsAlways(index) == Len(index) >= 0

\* if index.ntotal > 0
HasEmbeddings(index) == Len(index) > 0

\* existing_index.add(index.reconstruct_n(0, index.ntotal)); index = existing_index
MergeVectors(existing, index) == existing \o index

HasDoc(documents, d) == \E k \in 1..Len(documents) : documents[k].document_id = d

\* existing_meta['documents'][doc_id] = metadata  (a dict keeps insertion order:
\* a present key keeps its place, a new key goes last)
InsertDoc(documents, docmeta) ==
    IF HasDoc(documents, docmeta.document_id)
    THEN [k \in 1..Len(documents) |->
            IF documents[k].document_id = docmeta.document_id THEN docmeta ELSE documents[k]]
    ELSE Append(documents, docmeta)

\* except: metadata = {'session_id': user_id, 'documents': {doc_id: metadata}}
FreshMetadata(docmeta) == <<docmeta>>

Idle ==
    [pc |-> "idle", sid |-> "none", doc |-> "none", index |-> <<>>, docmeta |-> <<>>,
     documents |-> <<>>, existing |-> <<>>, found |-> FALSE, dup |-> FALSE,
     loadfail |-> FALSE]

Busy(w) == inv[w].pc # "idle"

\* invocations are interchangeable: a new one takes the first free slot
FreeWorker == IF \E w \in Workers : ~Busy(w)
              THEN CHOOSE w \in Workers : ~Busy(w) /\ \A o \in Workers : ~Busy(o) => o >= w
              ELSE 0

\* the search-router invocation before any request: no response yet
NoSearch == [pc |-> "idle", sid |-> "none", topK |-> 0, index |-> <<>>, statusCode |-> 0,
             error |-> "", hits |-> <<>>, sources |-> <<>>, answer |-> "",
             body |-> "none", hasQuery |-> FALSE, hasSession |-> FALSE,
             calls |-> {}, images |-> 0, totalResults |-> 0]

\* a response of the embed-worker handler
Response(s, d, code, nvec, npages) ==
    [sid |-> s, doc |-> d, statusCode |-> code, vectorCount |-> nvec, pageCount |-> npages]

\* the session the clients of this model work in; sessions share no key
Active == {"s1"}

\* a session in which nothing was merged
EmptySession == [index |-> NoIndex, meta |-> NoMeta]

\* a session after the merge of the one-page document PriorDoc into the empty
\* session: what the handler publishes for it and the response it returned
PriorDoc == "P"

PriorSession(s) ==
    [index |-> IndexBlob(<<<<PriorDoc, 1>>>>),
     meta |-> MetaBlob(FreshMetadata(DocMeta(s, PriorDoc, MkImages(<<<<PriorDoc, 1>>>>))))]

\* ------------------------------------------------------- index-merger data
\* An object key is the sequence of the pieces of its string; "/" is a piece of
\* its own, and a piece holds no "/".
ShardKey(owner, doc) == <<"private", "/", owner, "/">> \o doc \o <<"/", "index.index">>

MasterIndexKey == <<"private", "/", "master", "/", "latest.index">>
MasterMetaKey == <<"private", "/", "master", "/", "latest-meta.json">>

\* the keys a document index can be stored under
ShardKeys == {ShardKey("u1", <<"d1">>), ShardKey("u1", <<"web", "master">>),
              ShardKey("u2", <<"d2">>)}

\* the owner and the document name of a document index key
OwnerOf(k) == k[3]
DocOf(k) == SubSeq(k, 5, Len(k) - 2)

\* key.endswith('/index.index')
EndsWithIndexIndex(key) ==
    Len(key) >= 2 /\ key[Len(key) - 1] = "/" /\ key[Len(key)] = "index.index"

\* 'master/' in key
ContainsMasterSlash(key) ==
    \E i \in 1..(Len(key) - 1) : key[i] = "master" /\ key[i + 1] = "/"

\* key.replace('/index.index', '/meta.json')
MetaKey(key) ==
    [i \in 1..Len(key) |->
        IF i > 1 /\ key[i - 1] = "/" /\ key[i] = "index.index" THEN "meta.json" ELSE key[i]]

MergerDimension == 1024   \* dimension of the master index
EmbedDimension == 1536    \* dimension of the indexes embed-worker creates

Times == {1, 2}           \* LastModified timestamps
VectorCounts == {1, 2}    \* vectors of a non-empty document index

NoShard == [present |-> FALSE]

\* a metadata file without the 'document_id' field
NoDocumentId == <<>>

\* an image record of a document metadata file; hasIndex = FALSE is a record
\* without the 'index' field
ImageRecord(k, j) == [key |-> <<k, j>>, hasIndex |-> TRUE, index |-> j - 1]

\* a document index as a document index writer leaves it: n vectors of the
\* merger's dimension, vector i being <<k, i>>, and a metadata file meta.json
\* with the document's id and owner and one record per vector
RegularShard(k, n, lm) ==
    [present |-> TRUE, dim |-> MergerDimension, n |-> n, last_modified |-> lm,
     sidecar |-> "json", document_id |-> DocOf(k), user_id |-> OwnerOf(k),
     images |-> [j \in 1..n |-> ImageRecord(k, j)]]

\* the other document indexes the bucket can hold: an empty one, and a two-vector
\* one with vectors of embed-worker's dimension, without a metadata file, with a
\* metadata file that is not JSON, with another document's id or none, with one
\* record less or more than vectors, or with records without 'index'
IrregularShards(k, lm) ==
    LET r == RegularShard(k, 2, lm)
    IN {RegularShard(k, 0, lm),
        [r EXCEPT !.dim = EmbedDimension],
        [r EXCEPT !.sidecar = "missing"],
        [r EXCEPT !.sidecar = "notjson"],
        [r EXCEPT !.document_id = NoDocumentId],
        [r EXCEPT !.images = SubSeq(r.images, 1, 1)],
        [r EXCEPT !.images = Append(r.images, ImageRecord(k, 3))],
        [r EXCEPT !.images = [j \in 1..2 |-> [r.images[j] EXCEPT !.hasIndex = FALSE]]]}
    \cup {[r EXCEPT !.document_id = d] : d \in {<<"d1">>} \ {DocOf(k)}}

Shards(k) ==
    UNION {{RegularShard(k, n, lm) : n \in VectorCounts} \cup IrregularShards(k, lm) :
           lm \in Times}

\* the master blobs
NoMaster == [index |-> NoIndex, meta |-> [present |-> FALSE, documents |-> <<>>,
                                          source_indexes |-> <<>>]]

MasterMetaBlob(documents, source_indexes) ==
    [present |-> TRUE, documents |-> documents, source_indexes |-> source_indexes]

\* the index-merger invocation before any run: no response yet
NoResponse == [statusCode |-> 0]

IdleMerger ==
    [pc |-> "idle", runs |-> 0, all_indexes |-> <<>>, vectors |-> <<>>, documents |-> <<>>,
     source_indexes |-> <<>>, skipped |-> <<>>, response |-> NoResponse]

\* ----------------------------------------------------- convert-worker data
\* The key of an uploaded file, as the handler reads it: its first segment, the
\* number of its segments, its second segment and the suffix of its third one.
Suffixes == {".pdf", ".PDF", ".pptx", ".ppt", ".txt", ""}

FileKeys ==
    {k \in [first : {"private", "public"}, nparts : {2, 3, 4}, user : LegacyUsers,
            suffix : Suffixes] : k.nparts < 3 => k.suffix = ""}

NoFileKey == [first |-> "", nparts |-> 0, user |-> "", suffix |-> ""]

PageCounts == {0, 1, 2, 3}   \* pages a PDF file can have

\* what an invocation left: nothing yet, None, an exception, or a response
Pending == [kind |-> "pending"]
ReturnedNone == [kind |-> "none"]
Raised == [kind |-> "raised"]

IdleConvert ==
    [pc |-> "idle", runs |-> 0, key |-> NoFileKey, doc_id |-> "none", pages |-> 0,
     uploaded |-> <<>>, response |-> Pending]

\* the active session starts empty or with PriorDoc already merged
Init ==
    /\ images = [s \in Sessions |-> [d \in Docs |-> 0]]
    /\ events = {}
    /\ \E prior \in BOOLEAN :
          /\ store = [s \in Sessions |->
                        IF prior /\ s \in Active THEN PriorSession(s) ELSE EmptySession]
          /\ responses = IF prior THEN {Response(s, PriorDoc, 200, 1, 1) : s \in Active} ELSE {}
    /\ inv = [w \in Workers |-> Idle]
    /\ started = 0
    /\ overlap = FALSE
    /\ fault = FALSE
    /\ search = NoSearch
    /\ bucket = [k \in ShardKeys |-> NoShard]
    /\ master = NoMaster
    /\ merger = IdleMerger
    /\ convert = IdleConvert

\* ------------------------------------------------------------ environment
\* a client stores the next page image of document d of session s; S3 emits an
\* ObjectCreated event for the key. Only first-page events are kept in events:
\* the handler returns on any other event before it reads or writes anything
\* (SkipNonFirstPage), so whether such an event is still pending decides nothing.
PutImage(s, d) ==
    /\ images[s][d] + 1 \in PageNumbers
    /\ images' = [images EXCEPT ![s][d] = @ + 1]
    /\ events' = IF IsFirstPage(Key(s, d, images[s][d] + 1))
                 THEN events \cup {Key(s, d, images[s][d] + 1)}
                 ELSE events
    /\ UNCHANGED <<store, inv, responses, started, overlap, fault, others>>

\* the first-page event of a stored document is delivered again (S3 delivers at
\* least once, an asynchronous invocation that raised is retried, a client may
\* store the same key again)
Redeliver(s, d) ==
    /\ images[s][d] >= 1
    /\ started < MaxInvocations
    /\ Key(s, d, 1) \notin events
    /\ events' = events \cup {Key(s, d, 1)}
    /\ UNCHANGED <<images, store, inv, responses, started, overlap, fault, others>>

\* a client stores the next page image of document d of session s, and the
\* ObjectCreated event of every page is kept until the handler has taken it
PutPage(s, d) ==
    /\ images[s][d] + 1 \in PageNumbers
    /\ images' = [images EXCEPT ![s][d] = @ + 1]
    /\ events' = events \cup {Key(s, d, images[s][d] + 1)}
    /\ UNCHANGED <<store, inv, responses, started, overlap, fault, others>>

\* the convert-worker uploads (or uploads again) page p of document d of user u
\* under private/; the handler never lists or reads these images, so only their
\* events are kept
PutLegacyImage(u, d, p) ==
    /\ LegacyKey(u, d, p) \notin events
    /\ events' = events \cup {LegacyKey(u, d, p)}
    /\ UNCHANGED <<images, store, inv, responses, started, overlap, fault, others>>

\* ------------------------------------------------------------ embed-worker
\* handler, lines 29-45: an event whose key is not under sessions/ or is not a
\* first page is taken and the handler returns None
ReturnNone(e) ==
    /\ e \in events
    /\ ~IsSessionKey(e) \/ ~IsFirstPage(e)
    /\ events' = events \ {e}
    /\ UNCHANGED <<images, store, inv, responses, started, overlap, fault, others>>

\* handler, lines 42-45: an event that is not a first page returns None
SkipNonFirstPage(e) ==
    /\ e.page \in 1..images[e.sid][e.doc]
    /\ ~IsFirstPage(e)
    /\ UNCHANGED vars

\* handler, lines 47-126 and 192-195: list the document's images, embed each
\* (okPages: the pages whose embedding succeeded), build the document index and
\* metadata; without a vector return 400
Start(w, e, okPages) ==
    /\ w = FreeWorker
    /\ e \in events
    /\ IsSessionKey(e)
    /\ IsFirstPage(e)
    /\ started < MaxInvocations
    /\ images[e.sid][e.doc] >= 1                   \* 'Contents' in response
    /\ okPages \subseteq 1..images[e.sid][e.doc]
    /\ LET index == EmbedAll(ListImages(e.sid, e.doc), okPages)
           docmeta == DocMeta(e.sid, e.doc, DocRecords(ListImages(e.sid, e.doc), okPages))
       IN IF HasEmbeddings(index)
          THEN /\ inv' = [inv EXCEPT ![w] = [Idle EXCEPT !.pc = "download_index",
                                                   !.sid = e.sid, !.doc = e.doc,
                                                   !.index = index, !.docmeta = docmeta]]
               /\ UNCHANGED responses
          ELSE /\ responses' = responses \cup {Response(e.sid, e.doc, 400, 0, 0)}
               /\ UNCHANGED inv
    /\ events' = events \ {e}
    /\ started' = started + 1
    /\ overlap' = (overlap \/ \E o \in Workers \ {w} : Busy(o) /\ inv[o].sid = e.sid)
    /\ UNCHANGED <<images, store, fault, others>>

\* the except: branch, lines 148-155: the index stays the document's own index
StartEmpty(w, failed) ==
    [inv[w] EXCEPT !.pc = "upload_index",
                   !.documents = FreshMetadata(inv[w].docmeta),
                   !.existing = <<>>,
                   !.loadfail = failed]

\* handler, lines 143-146: json.load(f) and existing_meta['documents']
Parses(blob) == blob.form = "documents"

\* the except: branch, lines 148-155, entered from lines 143-146: the index is
\* already the downloaded one with the document's vectors appended (line 140)
StartPartly(w) ==
    [inv[w] EXCEPT !.pc = "upload_index",
                   !.index = MergeVectors(inv[w].existing, inv[w].index),
                   !.documents = FreshMetadata(inv[w].docmeta),
                   !.loadfail = TRUE]

\* a variant that keeps the index of every session under the key of session s1
DownloadIndexOneKey(w, ok) ==
    /\ inv[w].pc = "download_index"
    /\ LET blob == store["s1"].index
       IN /\ ~blob.present => ~ok
          /\ IF ok
             THEN inv' = [inv EXCEPT ![w].pc = "download_meta", ![w].existing = blob.vectors]
             ELSE inv' = [inv EXCEPT ![w] = StartEmpty(w, blob.present)]
          /\ fault' = (fault \/ (blob.present /\ ~ok))
    /\ UNCHANGED <<images, events, store, responses, started, overlap, others>>

\* handler, line 134: download the session index blob; ok = FALSE is a failed call
DownloadIndex(w, ok) ==
    /\ inv[w].pc = "download_index"
    /\ LET blob == store[inv[w].sid].index
       IN /\ ~blob.present => ~ok
          /\ IF ok
             THEN inv' = [inv EXCEPT ![w].pc = "download_meta", ![w].existing = blob.vectors]
             ELSE inv' = [inv EXCEPT ![w] = StartEmpty(w, blob.present)]
          /\ fault' = (fault \/ (blob.present /\ ~ok))
    /\ UNCHANGED <<images, events, store, responses, started, overlap, others>>

\* handler, lines 135-155: download the metadata blob, read the downloaded index
\* (ok = FALSE is a failure of one of the two), append the document's vectors,
\* parse the metadata and insert the document into it
DownloadMeta(w, ok) ==
    /\ inv[w].pc = "download_meta"
    /\ LET blob == store[inv[w].sid].meta
       IN /\ ~blob.present => ~ok
          /\ IF ok /\ ~Parses(blob)
             THEN inv' = [inv EXCEPT ![w] = StartPartly(w)]
             ELSE IF ok
             THEN inv' = [inv EXCEPT ![w].pc = "upload_index",
                                     ![w].index = MergeVectors(inv[w].existing, inv[w].index),
                                     ![w].documents = InsertDoc(blob.documents, inv[w].docmeta),
                                     ![w].found = TRUE,
                                     ![w].dup = HasDoc(blob.documents, inv[w].doc)]
             ELSE inv' = [inv EXCEPT ![w] = StartEmpty(w, TRUE)]
          /\ fault' = (fault \/ (blob.present /\ ~ok))
    /\ UNCHANGED <<images, events, store, responses, started, overlap, others>>

\* an upload raised (it is outside the try block): the invocation ends without
\* a response
Crash(w) ==
    /\ inv' = [inv EXCEPT ![w] = Idle]
    /\ fault' = TRUE
    /\ UNCHANGED <<store, responses>>

\* a variant that appends the document's vectors to the index stored at upload time
UploadIndexOntoStored(w, ok) ==
    /\ inv[w].pc = "upload_index"
    /\ IF ok
       THEN /\ store' = [store EXCEPT ![inv[w].sid].index =
                            IndexBlob(store[inv[w].sid].index.vectors \o
                                      [j \in 1..Len(inv[w].docmeta.images) |->
                                          inv[w].docmeta.images[j].key])]
            /\ inv' = [inv EXCEPT ![w].pc = "upload_meta"]
            /\ UNCHANGED <<responses, fault>>
       ELSE Crash(w)
    /\ UNCHANGED <<images, events, started, overlap, others>>

\* handler, lines 157-167: write and upload the session index
UploadIndex(w, ok) ==
    /\ inv[w].pc = "upload_index"
    /\ IF ok
       THEN /\ store' = [store EXCEPT ![inv[w].sid].index = IndexBlob(inv[w].index)]
            /\ inv' = [inv EXCEPT ![w].pc = "upload_meta"]
            /\ UNCHANGED <<responses, fault>>
       ELSE Crash(w)
    /\ UNCHANGED <<images, events, started, overlap, others>>

\* a variant that reports the document's own vector count as vectorCount
UploadMetaOwnCount(w, ok) ==
    /\ inv[w].pc = "upload_meta"
    /\ IF ok
       THEN /\ store' = [store EXCEPT ![inv[w].sid].meta = MetaBlob(inv[w].documents)]
            /\ inv' = [inv EXCEPT ![w] = Idle]
            /\ responses' = responses \cup
                  {Response(inv[w].sid, inv[w].doc, 200, Len(inv[w].docmeta.images),
                            Len(inv[w].docmeta.images))}
            /\ UNCHANGED fault
       ELSE Crash(w)
    /\ UNCHANGED <<images, events, started, overlap, others>>

\* handler, lines 168-190: upload the session metadata and return 200
UploadMeta(w, ok) ==
    /\ inv[w].pc = "upload_meta"
    /\ IF ok
       THEN /\ store' = [store EXCEPT ![inv[w].sid].meta = MetaBlob(inv[w].documents)]
            /\ inv' = [inv EXCEPT ![w] = Idle]
            /\ responses' = responses \cup
                  {Response(inv[w].sid, inv[w].doc, 200, Len(inv[w].index),
                            Len(inv[w].docmeta.images))}
            /\ UNCHANGED fault
       ELSE Crash(w)
    /\ UNCHANGED <<images, events, started, overlap, others>>

\* ------------------------------------------------------------ search-router
TopKs == {1, 2}           \* values of the request's topK

Min(a, b) == IF a <= b THEN a ELSE b

\* the k nearest positions index.search can return for some query: any k distinct
\* positions of the index, in rank order
Rankings(n, k) ==
    {h \in [1..k -> 0..(n - 1)] : \A i, j \in 1..k : i # j => h[i] # h[j]}

\* a variant that takes the first record of the metadata for every position
FindImageAny(documents, idx, k, j) ==
    IF documents = <<>> \/ documents[1].images = <<>>
    THEN [found |-> FALSE, key |-> <<>>, document_id |-> ""]
    ELSE [found |-> TRUE, key |-> documents[1].images[1].key,
          document_id |-> documents[1].document_id]

\* handler, lines 156-175: scan the documents in order and each document's images
\* in order for the first record whose 'index' equals the returned position
RECURSIVE FindImage(_, _, _, _)
FindImage(documents, idx, k, j) ==
    IF k > Len(documents) THEN [found |-> FALSE, key |-> <<>>, document_id |-> ""]
    ELSE IF j > Len(documents[k].images) THEN FindImage(documents, idx, k + 1, 1)
    ELSE IF documents[k].images[j].index = idx
         THEN [found |-> TRUE, key |-> documents[k].images[j].key,
               document_id |-> documents[k].document_id]
         ELSE FindImage(documents, idx, k, j + 1)

\* distances[0][i]: index.search returns the distances in ascending order; the
\* distance of rank i (1-based here) is modelled by i - 1
Distance(i) == i - 1

\* a variant that takes the distance at the place of the source in the result
SourceScoreByCount(i, result_images) == Distance(Len(result_images) + 1)

\* handler, line 169: 'score': float(distances[0][i]), i being the rank of the
\* position in the search result
SourceScore(i, result_images) == Distance(i)

\* every record whose 'index' equals the returned position, in scan order
AllMatches(documents, idx) ==
    LET places == {<<k, j>> \in (1..Len(documents)) \X (1..(Cardinality(PageNumbers) + 1)) :
                      /\ j <= Len(documents[k].images)
                      /\ documents[k].images[j].index = idx}
        Before(a, b) == a[1] < b[1] \/ (a[1] = b[1] /\ a[2] < b[2])
        Nth(n) == CHOOSE a \in places : Cardinality({b \in places : Before(b, a)}) = n - 1
    IN [n \in 1..Cardinality(places) |->
           [key |-> documents[Nth(n)[1]].images[Nth(n)[2]].key,
            document_id |-> documents[Nth(n)[1]].document_id]]

\* a variant of the loop without the two breaks: every matching record of a
\* position becomes a source
RECURSIVE ResolveHitsAllMatches(_, _, _, _, _)
ResolveHitsAllMatches(documents, hits, i, topK, result) ==
    IF i > Len(hits) THEN result
    ELSE LET found == AllMatches(documents, hits[i])
             next == result \o [n \in 1..Len(found) |->
                                   [key |-> found[n].key, document_id |-> found[n].document_id,
                                    score |-> Distance(i), pos |-> hits[i]]]
         IN IF Len(next) >= topK THEN next
            ELSE ResolveHitsAllMatches(documents, hits, i + 1, topK, next)

\* handler, lines 148-178: the loop over the returned positions. A source keeps
\* the position it was resolved for (pos) and the distance of its rank (score).
RECURSIVE ResolveHits(_, _, _, _, _)
ResolveHits(documents, hits, i, topK, result) ==
    IF i > Len(hits) THEN result
    ELSE LET img == FindImage(documents, hits[i], 1, 1)
             next == IF img.found
                     THEN Append(result, [key |-> img.key, document_id |-> img.document_id,
                                          score |-> SourceScore(i, result),
                                          pos |-> hits[i]])
                     ELSE result
         IN IF Len(next) >= topK THEN next
            ELSE ResolveHits(documents, hits, i + 1, topK, next)

SearchResponse(q, code, err) ==
    [NoSearch EXCEPT !.pc = "done", !.sid = q.sid, !.topK = q.topK,
                     !.statusCode = code, !.error = err,
                     !.body = q.body, !.hasQuery = q.hasQuery, !.hasSession = q.hasSession,
                     !.calls = q.calls, !.images = q.images]

\* event.get('body', '{}') of a request: no body (null), a string that is not
\* JSON, a JSON value that is no object, a JSON object
BodyKinds == {"null", "notjson", "nonobject", "object"}

\* the handler raised: the invocation ends without a response of its own
SearchRaised(q) == SearchResponse(q, 0, "unhandled exception")

\* a variant that never takes the index for missing
NotLoadedNever(ok, ntotal) == FALSE

\* handler, line 110: index is None or index.ntotal == 0
NotLoaded(ok, ntotal) == ~ok \/ ntotal = 0

\* a variant that calls the answer model without an image
CallsAnswerModelAlways(nImages) == TRUE

\* generate_answer_with_gemini, lines 457-458: without images return the fixed
\* string, else call the model
CallsAnswerModel(nImages) == nImages > 0

FallbackAnswer == "no related document image found"

\* a variant that keeps the index an earlier search loaded
LoadSessionIndexCached(cached, blob) == IF cached # <<>> THEN cached ELSE blob.vectors

\* load_session_index, lines 257-262: the index is read from the blob downloaded
\* in this invocation; cached_index (lines 20-22) is never read or assigned
LoadSessionIndex(cached, blob) == blob.vectors

\* handler, lines 69-102, and load_session_index, lines 257-259: parse the request,
\* then download the session index blob (ok = FALSE is a failed call)
SearchStart(s, topK, body, hasQuery, hasSession, ok) ==
    /\ search.pc # "load_meta"
    /\ body # "object" => ~hasQuery /\ ~hasSession
    /\ LET q == [sid |-> s, topK |-> topK, body |-> body, hasQuery |-> hasQuery,
                 hasSession |-> hasSession, calls |-> {}, images |-> 0]
           blob == store[s].index
       IN /\ ~blob.present => ~ok
          /\ search' =
               IF body = "null" THEN SearchRaised(q)          \* json.loads(None): TypeError
               ELSE IF body = "notjson" THEN SearchResponse(q, 400, "Invalid JSON in request body")
               ELSE IF body = "nonobject" THEN SearchRaised(q)   \* body.get: AttributeError
               ELSE IF ~hasQuery THEN SearchResponse(q, 400, "Query is required")
               ELSE IF ~hasSession THEN SearchResponse(q, 400, "sessionId is required")
               ELSE IF NotLoaded(ok, Len(blob.vectors))
                    THEN SearchResponse(q, 404, "No documents indexed yet")
               ELSE [NoSearch EXCEPT !.pc = "load_meta", !.sid = s, !.topK = topK,
                                     !.index = LoadSessionIndex(search.index, blob),
                                     !.body = body,
                                     !.hasQuery = hasQuery, !.hasSession = hasSession]
    /\ UNCHANGED <<mergeVars, mergerVars, convert>>

\* load_session_index, lines 260-277, and handler, lines 110-233: download the
\* metadata, embed the query, search, resolve the positions, download the images
\* of the first three sources and ask the answer model
SearchFinish(ok, embedOk, hits, nDownloaded, answerOk) ==
    /\ search.pc = "load_meta"
    /\ LET blob == store[search.sid].meta
           n == Len(search.index)
           sources == ResolveHits(blob.documents, hits, 1, search.topK, <<>>)
           embedded == [search EXCEPT !.calls = {"embedding"}]
           answered == [embedded EXCEPT !.images = nDownloaded,
                           !.calls = IF CallsAnswerModel(nDownloaded)
                                     THEN {"embedding", "answer"} ELSE {"embedding"}]
       IN /\ ~blob.present => ~ok
          /\ hits \in Rankings(n, Min(search.topK, n))
          /\ nDownloaded <= Min(3, Len(sources))
          /\ search' =
               IF NotLoaded(ok, n) THEN SearchResponse(search, 404, "No documents indexed yet")
               ELSE IF ~embedOk THEN SearchResponse(embedded, 500, "embedding")
               ELSE IF CallsAnswerModel(nDownloaded) /\ ~answerOk
                    THEN SearchResponse(answered, 500, "answer")
               ELSE [SearchResponse(answered, 200, "") EXCEPT
                        !.index = search.index, !.hits = hits, !.sources = sources,
                        !.totalResults = Len(sources),
                        !.answer = IF CallsAnswerModel(nDownloaded) THEN "model text"
                                   ELSE FallbackAnswer]
    /\ UNCHANGED <<mergeVars, mergerVars, convert>>

\* ------------------------------------------------------------ index-merger
\* paginate(Prefix='private/'): the objects under private/ in the order S3 lists
\* them, the byte order of their keys: private/master/latest-meta.json,
\* private/master/latest.index, private/u1/d1/..., private/u1/webmaster/...,
\* private/u2/d2/...; in a folder index.index comes before meta.json
KeyOrder ==
    <<MasterMetaKey, MasterIndexKey,
      ShardKey("u1", <<"d1">>), MetaKey(ShardKey("u1", <<"d1">>)),
      ShardKey("u1", <<"web", "master">>), MetaKey(ShardKey("u1", <<"web", "master">>)),
      ShardKey("u2", <<"d2">>), MetaKey(ShardKey("u2", <<"d2">>))>>

\* the object stored under a key exists
Exists(key) ==
    \/ key = MasterIndexKey /\ master.index.present
    \/ key = MasterMetaKey /\ master.meta.present
    \/ \E k \in ShardKeys :
          /\ bucket[k].present
          /\ \/ key = k
             \/ key = MetaKey(k) /\ bucket[k].sidecar # "missing"

\* obj['LastModified'] of a listed object
LastModified(key) ==
    IF \E k \in ShardKeys : key \in {k, MetaKey(k)}
    THEN bucket[CHOOSE k \in ShardKeys : key \in {k, MetaKey(k)}].last_modified
    ELSE 0

ListObjects == SelectSeq(KeyOrder, Exists)

\* handler, lines 35-55: keep the keys that hold no 'master/' and end with
\* '/index.index'
AllIndexes(listing) ==
    LET kept == SelectSeq(listing, LAMBDA key : ~ContainsMasterSlash(key)
                                                 /\ EndsWithIndexIndex(key))
    IN [i \in 1..Len(kept) |->
           [index_key |-> kept[i], meta_key |-> MetaKey(kept[i]),
            last_modified |-> LastModified(kept[i])]]

\* list.sort(key=...) is stable: x goes behind every element that is not newer
RECURSIVE InsertByLastModified(_, _)
InsertByLastModified(sorted, x) ==
    IF sorted = <<>> THEN <<x>>
    ELSE IF sorted[Len(sorted)].last_modified <= x.last_modified THEN Append(sorted, x)
    ELSE Append(InsertByLastModified(SubSeq(sorted, 1, Len(sorted) - 1), x),
                sorted[Len(sorted)])

RECURSIVE SortFrom(_, _, _)
SortFrom(seq, i, sorted) ==
    IF i > Len(seq) THEN sorted
    ELSE SortFrom(seq, i + 1, InsertByLastModified(sorted, seq[i]))

Reverse(seq) == [i \in 1..Len(seq) |-> seq[Len(seq) + 1 - i]]

\* a variant whose order among equal timestamps changes from run to run
SortUnstable(all_indexes) ==
    IF merger.runs % 2 = 0 THEN SortFrom(all_indexes, 1, <<>>)
    ELSE SortFrom(Reverse(all_indexes), 1, <<>>)

\* handler, line 67: all_indexes.sort(key=lambda x: x['last_modified'])
SortByLastModified(all_indexes) == SortFrom(all_indexes, 1, <<>>)

\* handler, lines 69-76: the empty master index and master metadata; skipped is
\* the list of the shards whose iteration raised (the handler prints them)
EmptyMaster == [vectors |-> <<>>, documents |-> <<>>, source_indexes |-> <<>>,
                skipped |-> <<>>]

\* a variant in which a shard that raises empties what was merged before it
SkipAndReset(m, info) == [EmptyMaster EXCEPT !.skipped = Append(m.skipped, info.index_key)]

\* handler, lines 137-139: except Exception: print and continue
Skip(m, info) == [m EXCEPT !.skipped = Append(@, info.index_key)]

\* a variant that gives every record the offset of the first shard
UpdateImagesFromZero(imgs, offset) ==
    [j \in 1..Len(imgs) |->
        [key |-> imgs[j].key, hasIndex |-> TRUE, index |-> imgs[j].index,
         global_index |-> imgs[j].index]]

\* handler, lines 113-117: updated_img['global_index'] = offset + img['index']
UpdateImages(imgs, offset) ==
    [j \in 1..Len(imgs) |->
        [key |-> imgs[j].key, hasIndex |-> TRUE, index |-> imgs[j].index,
         global_index |-> offset + imgs[j].index]]

MasterHasDoc(documents, d) == \E k \in 1..Len(documents) : documents[k].document_id = d

\* master_metadata['documents'][doc_id] = {...}: a present key keeps its place, a
\* new key goes last
PutDocument(documents, entry) ==
    IF MasterHasDoc(documents, entry.document_id)
    THEN [k \in 1..Len(documents) |->
            IF documents[k].document_id = entry.document_id THEN entry ELSE documents[k]]
    ELSE Append(documents, entry)

\* handler, lines 80-139: one iteration of the loop over all_indexes
MergeShard(m, info) ==
    LET shard == bucket[info.index_key]
        vecs == [i \in 1..shard.n |-> <<info.index_key, i>>]
        offset == Len(m.vectors)
        added == [m EXCEPT !.vectors = @ \o vecs]
        doc_id == IF shard.document_id = NoDocumentId THEN <<"unknown">>
                  ELSE shard.document_id
    IN IF shard.sidecar = "missing" THEN Skip(m, info)         \* download_file raises
       ELSE IF shard.sidecar = "notjson" THEN Skip(m, info)    \* json.load raises
       ELSE IF shard.n = 0 THEN m
       ELSE IF shard.dim # MergerDimension THEN Skip(m, info)  \* vectors[i] = ... raises
       ELSE IF \E j \in 1..Len(shard.images) : ~shard.images[j].hasIndex
            THEN Skip(added, info)                             \* img['index'] raises
       ELSE [added EXCEPT
                !.documents = PutDocument(@, [document_id |-> doc_id,
                                              user_id |-> shard.user_id,
                                              images |-> UpdateImages(shard.images, offset),
                                              original_index |-> info.index_key]),
                !.source_indexes = Append(@, [key |-> info.index_key, vectors |-> shard.n,
                                              document_id |-> doc_id])]

RECURSIVE MergeAll(_, _, _)
MergeAll(m, all_indexes, i) ==
    IF i > Len(all_indexes) THEN m
    ELSE MergeAll(MergeShard(m, all_indexes[i]), all_indexes, i + 1)

\* a variant that never takes the bucket for empty
NoIndexesNever(all_indexes) == FALSE

\* handler, line 57: if not all_indexes
NoIndexes(all_indexes) == all_indexes = <<>>

\* a variant that publishes whatever the loop produced
HasVectorsAlways(m) == Len(m.vectors) >= 0

\* handler, line 142: if master_index.ntotal > 0
HasVectors(m) == Len(m.vectors) > 0

\* handler, lines 12-151 and 179-182: list, filter, sort and merge; without a
\* document index return 'No indexes to merge', without a vector return 400
Rebuild ==
    /\ merger.pc = "idle"
    /\ merger.runs < MaxRebuilds
    /\ LET all_indexes == AllIndexes(ListObjects)
           sorted == SortByLastModified(all_indexes)
           m == MergeAll(EmptyMaster, sorted, 1)
           run == [merger EXCEPT !.runs = @ + 1, !.all_indexes = sorted,
                                 !.vectors = m.vectors, !.documents = m.documents,
                                 !.source_indexes = m.source_indexes,
                                 !.skipped = m.skipped]
       IN merger' =
            IF NoIndexes(all_indexes)
            THEN [IdleMerger EXCEPT !.runs = merger.runs + 1,
                     !.response = [statusCode |-> 200, message |-> "No indexes to merge"]]
            ELSE IF HasVectors(m)
            THEN [run EXCEPT !.pc = "upload_index", !.response = NoResponse]
            ELSE [run EXCEPT !.response = [statusCode |-> 400, error |-> "No vectors merged"]]
    /\ UNCHANGED <<mergeVars, search, bucket, master, convert>>

\* handler, lines 154-158: upload the master index; an upload that raises ends
\* the invocation without a response
UploadMasterIndex(ok) ==
    /\ merger.pc = "upload_index"
    /\ IF ok
       THEN /\ master' = [master EXCEPT !.index = IndexBlob(merger.vectors)]
            /\ merger' = [merger EXCEPT !.pc = "upload_meta"]
       ELSE /\ merger' = [merger EXCEPT !.pc = "idle"]
            /\ UNCHANGED master
    /\ UNCHANGED <<mergeVars, search, bucket, convert>>

\* handler, lines 161-177: upload the master metadata and return the summary
UploadMasterMeta(ok) ==
    /\ merger.pc = "upload_meta"
    /\ IF ok
       THEN /\ master' = [master EXCEPT
                             !.meta = MasterMetaBlob(merger.documents, merger.source_indexes)]
            /\ merger' = [merger EXCEPT !.pc = "idle",
                             !.response = [statusCode |-> 200,
                                           totalVectors |-> Len(merger.vectors),
                                           totalDocuments |-> Len(merger.documents),
                                           mergedIndexes |-> Len(merger.source_indexes)]]
       ELSE /\ merger' = [merger EXCEPT !.pc = "idle"]
            /\ UNCHANGED master
    /\ UNCHANGED <<mergeVars, search, bucket, convert>>

\* ------------------------------------------------------------ convert-worker
\* handler, line 28: len(parts) < 3 or parts[0] != 'private'
InvalidKey(key) == key.nparts < 3 \/ key.first # "private"

\* Path(filename).suffix.lower()
Lower(suffix) == IF suffix = ".PDF" THEN ".pdf" ELSE suffix

\* handler, lines 50-56: the file types that are converted
Supported(file_extension) == file_extension \in {".pdf", ".pptx", ".ppt"}

\* handler, lines 50-53: a PDF gives one image per page, a presentation gives
\* the one image convert_pptx_to_images creates
ConvertedPages(file_extension, npages) == IF file_extension = ".pdf" THEN npages ELSE 1

\* a variant that numbers the pages from 0
PageNumberFromZero(idx) == idx

\* handler, line 64 and 86: idx + 1
PageNumber(idx) == idx + 1

\* handler, lines 20-60: read the key, download the file (downloaded = FALSE is
\* a download that raised), convert it (converted = FALSE is a PDF conversion
\* whose fallback raised); d is the uuid the document gets
ConvertStart(key, d, npages, downloaded, converted) ==
    /\ convert.pc = "idle"
    /\ convert.runs < MaxConversions
    /\ LET run == [IdleConvert EXCEPT !.runs = convert.runs + 1, !.key = key]
           file_extension == Lower(key.suffix)
       IN convert' =
            IF InvalidKey(key) THEN [run EXCEPT !.response = ReturnedNone]
            ELSE IF ~downloaded THEN [run EXCEPT !.response = Raised]
            ELSE IF ~Supported(file_extension) THEN [run EXCEPT !.response = ReturnedNone]
            ELSE IF file_extension = ".pdf" /\ ~converted THEN [run EXCEPT !.response = Raised]
            ELSE [run EXCEPT !.pc = "upload", !.doc_id = d,
                             !.pages = ConvertedPages(file_extension, npages)]
    /\ UNCHANGED <<mergeVars, search, mergerVars>>

\* handler, lines 62-87: one turn of the upload loop; an upload that raises ends
\* the invocation and leaves what was uploaded before it
UploadPage(ok) ==
    /\ convert.pc = "upload"
    /\ Len(convert.uploaded) < convert.pages
    /\ LET idx == Len(convert.uploaded)
           image_key == LegacyKey(convert.key.user, convert.doc_id, PageNumber(idx))
       IN convert' =
            IF ok
            THEN [convert EXCEPT !.uploaded = Append(@, [key |-> image_key,
                                                         page |-> PageNumber(idx)])]
            ELSE [convert EXCEPT !.pc = "idle", !.response = Raised]
    /\ UNCHANGED <<mergeVars, search, mergerVars>>

\* handler, lines 89-99: the loop is over, return the response
ConvertReturn ==
    /\ convert.pc = "upload"
    /\ Len(convert.uploaded) = convert.pages
    /\ convert' = [convert EXCEPT !.pc = "idle",
                      !.response = [kind |-> "returned", statusCode |-> 200,
                                    documentId |-> convert.doc_id,
                                    totalPages |-> convert.pages,
                                    images |-> convert.uploaded]]
    /\ UNCHANGED <<mergeVars, search, mergerVars>>

\* ------------------------------------------------------------ specification
Next ==
    \/ \E s \in Active, d \in Docs : PutImage(s, d)
    \/ \E s \in Active, d \in Docs : Redeliver(s, d)
    \/ \E s \in Active, d \in Docs, p \in PageNumbers : SkipNonFirstPage(Key(s, d, p))
    \/ \E w \in Workers, e \in events, okPages \in SUBSET PageNumbers : Start(w, e, okPages)
    \/ \E w \in Workers, ok \in BOOLEAN : DownloadIndex(w, ok)
    \/ \E w \in Workers, ok \in BOOLEAN : DownloadMeta(w, ok)
    \/ \E w \in Workers, ok \in BOOLEAN : UploadIndex(w, ok)
    \/ \E w \in Workers, ok \in BOOLEAN : UploadMeta(w, ok)

Spec == Init /\ [][Next]_vars

\* the merges of one invocation slot, with searches of the session running beside them
SearchNext ==
    \/ \E s \in Active, d \in Docs : PutImage(s, d)
    \/ \E e \in events, okPages \in SUBSET PageNumbers : Start(1, e, okPages)
    \/ \E ok \in BOOLEAN : DownloadIndex(1, ok)
    \/ \E ok \in BOOLEAN : DownloadMeta(1, ok)
    \/ \E ok \in BOOLEAN : UploadIndex(1, ok)
    \/ \E ok \in BOOLEAN : UploadMeta(1, ok)
    \/ \E s \in Active, topK \in TopKs, body \in BodyKinds, hasQuery, hasSession, ok \in BOOLEAN :
          SearchStart(s, topK, body, hasQuery, hasSession, ok)
    \/ \E ok, embedOk, answerOk \in BOOLEAN, nDownloaded \in 0..3,
          hits \in UNION {Rankings(Len(search.index), k) : k \in 0..Len(search.index)} :
          SearchFinish(ok, embedOk, hits, nDownloaded, answerOk)

SearchSpec == Init /\ [][SearchNext]_vars

\* the events of every page image, of both key layouts, handled by one
\* invocation slot
EventNext ==
    \/ \E s \in Active, d \in Docs : PutPage(s, d)
    \/ \E u \in LegacyUsers, d \in Docs, p \in PageNumbers : PutLegacyImage(u, d, p)
    \/ \E e \in events : ReturnNone(e)
    \/ \E e \in events, okPages \in SUBSET PageNumbers : Start(1, e, okPages)
    \/ \E ok \in BOOLEAN : DownloadIndex(1, ok)
    \/ \E ok \in BOOLEAN : DownloadMeta(1, ok)
    \/ \E ok \in BOOLEAN : UploadIndex(1, ok)
    \/ \E ok \in BOOLEAN : UploadMeta(1, ok)

EventSpec == Init /\ [][EventNext]_vars

\* the master index a run over one regular document index published
PriorShardKey == ShardKey("u1", <<"d1">>)

PriorMaster ==
    [index |-> IndexBlob(<<<<PriorShardKey, 1>>>>),
     meta |-> MasterMetaBlob(
                 <<[document_id |-> DocOf(PriorShardKey), user_id |-> OwnerOf(PriorShardKey),
                    images |-> UpdateImages(<<ImageRecord(PriorShardKey, 1)>>, 0),
                    original_index |-> PriorShardKey]>>,
                 <<[key |-> PriorShardKey, vectors |-> 1,
                    document_id |-> DocOf(PriorShardKey)]>>)]

\* the runs of the index-merger over a vector bucket: any document index, or
\* none, under every key; the master absent or left by an earlier run
MergerInit ==
    /\ images = [s \in Sessions |-> [d \in Docs |-> 0]]
    /\ events = {}
    /\ store = [s \in Sessions |-> EmptySession]
    /\ responses = {}
    /\ inv = [w \in Workers |-> Idle]
    /\ started = 0
    /\ overlap = FALSE
    /\ fault = FALSE
    /\ search = NoSearch
    /\ convert = IdleConvert
    /\ \E a \in {NoShard} \cup Shards(ShardKey("u1", <<"d1">>)),
          b \in {NoShard} \cup Shards(ShardKey("u1", <<"web", "master">>)),
          c \in {NoShard} \cup Shards(ShardKey("u2", <<"d2">>)) :
          bucket = (ShardKey("u1", <<"d1">>) :> a) @@ (ShardKey("u1", <<"web", "master">>) :> b)
                   @@ (ShardKey("u2", <<"d2">>) :> c)
    /\ master \in {NoMaster, PriorMaster}
    /\ merger = IdleMerger

MergerNext ==
    \/ Rebuild
    \/ \E ok \in BOOLEAN : UploadMasterIndex(ok)
    \/ \E ok \in BOOLEAN : UploadMasterMeta(ok)

MergerSpec == MergerInit /\ [][MergerNext]_vars

\* the runs of the convert-worker, one after the other
ConvertNext ==
    \/ \E key \in FileKeys, d \in Docs, npages \in PageCounts, downloaded, converted \in BOOLEAN :
          ConvertStart(key, d, npages, downloaded, converted)
    \/ \E ok \in BOOLEAN : UploadPage(ok)
    \/ ConvertReturn

ConvertSpec == Init /\ [][ConvertNext]_vars

\* a session whose metadata blob was not written by the embed-worker
ForeignSession(form) ==
    [index |-> IndexBlob(<<<<PriorDoc, 1>>>>), meta |-> ForeignMetaBlob(form)]

\* the merges of one invocation slot into a session that is empty, holds
\* PriorDoc, or holds an index with a metadata blob of another form
LoadInit ==
    /\ images = [s \in Sessions |-> [d \in Docs |-> 0]]
    /\ events = {}
    /\ \E session \in {EmptySession} \cup {PriorSession(s) : s \in Active}
                       \cup {ForeignSession(form) : form \in MetaForms} :
          store = [s \in Sessions |-> IF s \in Active THEN session ELSE EmptySession]
    /\ responses = {}
    /\ inv = [w \in Workers |-> Idle]
    /\ started = 0
    /\ overlap = FALSE
    /\ fault = FALSE
    /\ search = NoSearch
    /\ bucket = [k \in ShardKeys |-> NoShard]
    /\ master = NoMaster
    /\ merger = IdleMerger
    /\ convert = IdleConvert

LoadNext ==
    \/ \E s \in Active, d \in Docs : PutImage(s, d)
    \/ \E s \in Active, d \in Docs : Redeliver(s, d)
    \/ \E e \in events, okPages \in SUBSET PageNumbers : Start(1, e, okPages)
    \/ \E ok \in BOOLEAN : DownloadIndex(1, ok)
    \/ \E ok \in BOOLEAN : DownloadMeta(1, ok)
    \/ \E ok \in BOOLEAN : UploadIndex(1, ok)
    \/ \E ok \in BOOLEAN : UploadMeta(1, ok)

LoadSpec == LoadInit /\ [][LoadNext]_vars

\* the document the clients of the two-session runs store
SharedDoc == "A"

\* merges in two sessions side by side: the clients of both sessions store the
\* pages of a document of the same name, its first-page event may be delivered
\* again, and the invocations interleave
TwoSessionNext ==
    \/ \E s \in Sessions : PutImage(s, SharedDoc)
    \/ \E s \in Sessions : Redeliver(s, SharedDoc)
    \/ \E w \in Workers, e \in events, okPages \in SUBSET PageNumbers : Start(w, e, okPages)
    \/ \E w \in Workers, ok \in BOOLEAN : DownloadIndex(w, ok)
    \/ \E w \in Workers, ok \in BOOLEAN : DownloadMeta(w, ok)
    \/ \E w \in Workers, ok \in BOOLEAN : UploadIndex(w, ok)
    \/ \E w \in Workers, ok \in BOOLEAN : UploadMeta(w, ok)

TwoSessionSpec == Init /\ [][TwoSessionNext]_vars

\* the pages of a document are stored one after another while the events are
\* handled by one invocation slot; every embedding succeeds
PageOrderNext ==
    \/ \E s \in Active, d \in Docs : PutPage(s, d)
    \/ \E e \in events : ReturnNone(e)
    \/ \E e \in events : Start(1, e, PageNumbers \cap 1..images[e.sid][e.doc])
    \/ \E ok \in BOOLEAN : DownloadIndex(1, ok)
    \/ \E ok \in BOOLEAN : DownloadMeta(1, ok)
    \/ \E ok \in BOOLEAN : UploadIndex(1, ok)
    \/ \E ok \in BOOLEAN : UploadMeta(1, ok)

PageOrderSpec == Init /\ [][PageOrderNext]_vars

\* ------------------------------------------------------------ vocabulary of the properties
RECURSIVE SumLen(_)
\* number of image records of a sequence of documents
SumLen(documents) ==
    IF documents = <<>> THEN 0
    ELSE Len(documents[1].images) + SumLen(Tail(documents))

\* the position field of an image record of the session metadata: embed-worker
\* writes no other one, and search-router reads it as the position in the index
GlobalIndex(img) == img.index

\* the image records of the session metadata, as <<document, record>> places
RecordsOf(documents) ==
    {<<k, j>> \in (1..Len(documents)) \X (1..Cardinality(PageNumbers) * MaxInvocations) :
        j <= Len(documents[k].images)}

IsPrefix(a, b) == Len(a) <= Len(b) /\ \A i \in 1..Len(a) : a[i] = b[i]

Publishing(w) == inv[w].pc \in {"upload_index", "upload_meta"}

\* worker w takes a step
Steps(w) == inv'[w] # inv[w]

\* session s holds a published index on which no invocation is between its two uploads
Merged(s) ==
    /\ store[s].index.present
    /\ store[s].meta.present
    /\ \A w \in Workers : ~(inv[w].pc = "upload_meta" /\ inv[w].sid = s)

\* the successful responses for session s
Successes(s) == {r \in responses : r.sid = s /\ r.statusCode = 200}

\* every invocation so far ran alone and to its end, no S3 call failed, and no
\* document was merged twice
SequentialRun(s) ==
    /\ ~overlap
    /\ ~fault
    /\ \A w \in Workers : ~Busy(w)
    /\ \A r1, r2 \in Successes(s) : r1.doc = r2.doc => r1 = r2

\* ------------------------------------------------------------ properties

\* C1: after every session merge, every position i in [0, vectors.count) of the
\* persisted session index is the global index of exactly one image record of the
\* session metadata, and no record carries a global index outside that range.
\* The claim is about any sequence of merges; it is stated here for the sequences
\* it is easiest on: distinct documents, merged one after the other, no failed call.
C1_GlobalIndexBijection ==
    \A s \in Sessions :
        (Merged(s) /\ SequentialRun(s)) =>
            LET n == Len(store[s].index.vectors)
                docs == store[s].meta.documents
            IN /\ \A i \in 0..(n - 1) :
                     Cardinality({r \in RecordsOf(docs) :
                                    GlobalIndex(docs[r[1]].images[r[2]]) = i}) = 1
               /\ \A r \in RecordsOf(docs) :
                     GlobalIndex(docs[r[1]].images[r[2]]) \in 0..(n - 1)

\* C2: after non-concurrent merges of N distinct documents with v1..vN vectors the
\* persisted index holds v1+...+vN vectors and the records of the k-th merged
\* document carry global index (v1+...+v(k-1)) + localIndex.
C2_SequentialOffsets ==
    \A s \in Sessions :
        (SequentialRun(s) /\ Merged(s)) =>
            LET docs == store[s].meta.documents
            IN /\ Len(store[s].index.vectors) = SumLen(docs)
               /\ Len(docs) = Cardinality(Successes(s))
               /\ \A k \in 1..Len(docs) : \A j \in 1..Len(docs[k].images) :
                     GlobalIndex(docs[k].images[j]) = SumLen(SubSeq(docs, 1, k - 1)) + (j - 1)

\* C4: the session index is published as a single unit: in every state of the
\* object store the vector blob and the metadata sidecar come from the same merge
\* (both present or both absent, vector count = number of records).
C4_SingleUnit ==
    \A s \in Sessions :
        /\ store[s].index.present = store[s].meta.present
        /\ Len(store[s].index.vectors) = SumLen(store[s].meta.documents)

\* C6: a merge of a document whose id is already in the session's documents mapping
\* is rejected: it changes neither persisted blob and returns no success.
C6_DuplicateRejected ==
    [][\A w \in Workers :
          (inv[w].dup /\ ~overlap /\ Steps(w)) => (store' = store /\ responses' = responses)]_vars

\* C7: when the session index exists but cannot be read, the merge fails and
\* publishes nothing.
C7_LoadCorruptedFails ==
    [][\A w \in Workers :
          (inv[w].loadfail /\ ~overlap /\ Steps(w)) => (store' = store /\ responses' = responses)]_vars

\* the vectors of the document invocation w merges, in the order of its records
OwnVectors(w) == [j \in 1..Len(inv[w].docmeta.images) |-> inv[w].docmeta.images[j].key]

UploadsIndex(w) == inv[w].pc = "upload_index" /\ inv'[w].pc = "upload_meta"

\* C3: two concurrent merges of one session both compute their offset from the
\* index they read, and each publishes its own merge whatever the store holds by
\* then: no upload is refused or merged with a concurrent one, so the later
\* publisher overwrites the earlier one and both return success.
C3_PublishOverwrites ==
    [][\A w \in Workers :
          /\ (inv[w].pc = "download_meta" /\ inv'[w].pc = "upload_index" /\ inv'[w].found)
                => inv'[w].index = inv[w].existing \o OwnVectors(w)
          /\ UploadsIndex(w) => store'[inv[w].sid].index = IndexBlob(inv[w].index)
          /\ (inv[w].pc = "upload_meta" /\ Steps(w) /\ store' # store)
                => /\ store'[inv[w].sid].meta = MetaBlob(inv[w].documents)
                   /\ \E r \in responses' : r.doc = inv[w].doc /\ r.statusCode = 200]_vars

\* both merges returned success, yet the persisted index and metadata hold nothing
\* of document A
C3_LostUpdate ==
    /\ \A w \in Workers : ~Busy(w)
    /\ ~fault
    /\ started = 2
    /\ \E r \in Successes("s1") : r.doc = "A" /\ r.vectorCount = 2
    /\ \E r \in Successes("s1") : r.doc = "B" /\ r.vectorCount = 2
    /\ store["s1"].index.vectors = <<<<PriorDoc, 1>>, <<"B", 1>>>>
    /\ \A i \in 1..Len(store["s1"].index.vectors) : store["s1"].index.vectors[i][1] # "A"
    /\ ~HasDoc(store["s1"].meta.documents, "A")

\* C8: a merge of document B leaves unchanged everything merged before it: the
\* vectors already in the session index keep their place and content, and the
\* records of every other document are the same before and after. Stated for
\* invocations that run alone, at the step that fixes what the merge publishes.
C8_MergePreservesPrior ==
    [][\A w \in Workers :
          (/\ ~overlap
           /\ inv[w].pc \in {"download_index", "download_meta"}
           /\ inv'[w].pc = "upload_index"
           /\ store[inv[w].sid].index.present
           /\ store[inv[w].sid].meta.present)
          => LET prior == store[inv[w].sid]
             IN /\ IsPrefix(prior.index.vectors, inv'[w].index)
                /\ \A k \in 1..Len(prior.meta.documents) :
                      prior.meta.documents[k].document_id # inv[w].doc
                         => \E j \in 1..Len(inv'[w].documents) :
                               inv'[w].documents[j] = prior.meta.documents[k]]_vars

\* invocation w found no session index (the index blob was absent)
FirstMerge(w) == Publishing(w) /\ ~inv[w].found /\ ~inv[w].loadfail

\* C9: a merge into a session that has no index yet gives every record a global
\* index equal to its local index (offset 0), the vector at that position is the
\* record's, and the merge publishes exactly the document's vectors and records.
C9_FirstMergeOffsetZero ==
    [][\A w \in Workers :
          (FirstMerge(w) /\ Steps(w)) =>
             /\ \A j \in 1..Len(inv[w].docmeta.images) :
                   /\ GlobalIndex(inv[w].docmeta.images[j]) = j - 1
                   /\ inv[w].index[GlobalIndex(inv[w].docmeta.images[j]) + 1]
                         = inv[w].docmeta.images[j].key
             /\ UploadsIndex(w) => store'[inv[w].sid].index = IndexBlob(OwnVectors(w))
             /\ (inv[w].pc = "upload_meta" /\ store' # store)
                   => store'[inv[w].sid].meta = MetaBlob(<<inv[w].docmeta>>)]_vars

\* the first merge of a session has published a two-page document
C9_FirstMergePublished ==
    /\ started = 1
    /\ ~fault
    /\ Merged("s1")
    /\ \A w \in Workers : ~Busy(w)
    /\ Len(store["s1"].index.vectors) = 2
    /\ Len(store["s1"].meta.documents) = 1
    /\ Successes("s1") # {}

NoEmptyDocument ==
    /\ \A s \in Sessions :
          /\ store[s].index.present => Len(store[s].index.vectors) > 0
          /\ \A k \in 1..Len(store[s].meta.documents) :
                Len(store[s].meta.documents[k].images) > 0
    /\ \A w \in Workers : Busy(w) => Len(inv[w].docmeta.images) > 0 /\ Len(inv[w].index) > 0

\* C10: a document for which no vector was produced is rejected: the invocation
\* returns 400, uploads nothing, and no document without vectors is ever persisted.
C10_EmptyBatchRejected ==
    /\ []NoEmptyDocument
    /\ [][started' # started =>
            \/ /\ \E w \in Workers : ~Busy(w) /\ inv'[w].pc = "download_index"
                                     /\ Len(inv'[w].index) > 0
               /\ responses' = responses
            \/ /\ inv' = inv
               /\ store' = store
               /\ \E r \in responses' : r.statusCode = 400 /\ r.vectorCount = 0]_vars
    /\ [][\A r \in responses' \ responses : r.statusCode = 400 => store' = store /\ inv' = inv]_vars

\* an invocation returned 400 for a stored document and nothing was published
C10_RejectedNothingPublished ==
    /\ \E r \in responses : r.statusCode = 400 /\ r.doc = "A" /\ images[r.sid]["A"] = 2
    /\ ~store["s1"].index.present
    /\ ~store["s1"].meta.present
    /\ started = 1

\* C5: every source a search returns for a position p is the image record of the
\* vector stored at position p of the searched index. Stated for searches of an
\* index that sequential, fault-free merges of distinct documents published.
C5_SourceIsVectorAtPosition ==
    (/\ search.pc = "done"
     /\ search.statusCode = 200
     /\ SequentialRun(search.sid)
     /\ Merged(search.sid)
     /\ search.index = store[search.sid].index.vectors)
    => \A i \in 1..Len(search.sources) :
          search.sources[i].key = search.index[search.sources[i].pos + 1]

\* C11: a failure while processing a document (the embedding of one of its pages
\* fails) ends the merge with that failure: an invocation goes on to load and
\* publish the session index only with a vector for every page image it listed.
C11_NoPartialMerge ==
    [][\A w \in Workers :
          (~Busy(w) /\ inv'[w].pc = "download_index")
             => Len(inv'[w].index) = images[inv'[w].sid][inv'[w].doc]]_vars

\* ------------------------------------------------- properties of the index-merger
\* the last run of the index-merger returned the summary of a published master
Summarised == merger.pc = "idle" /\ "totalVectors" \in DOMAIN merger.response

\* the document indexes the last run listed as its sources
Sources == {merger.all_indexes[i].index_key : i \in 1..Len(merger.all_indexes)}

\* the image records of a master metadata, as <<document, record>> places
MasterRecords(documents) ==
    UNION {{<<k, j>> : j \in 1..Len(documents[k].images)} : k \in 1..Len(documents)}

\* C12: a document index whose vectors have another dimension than the master
\* index makes the rebuild fail: no run that had such a shard among its sources
\* returns the success summary.
C12_DimensionMismatchFails ==
    Summarised => \A k \in Sources : bucket[k].dim = MergerDimension

\* C13: in every published master index each position i in [0, totalVectors) is the
\* global_index of exactly one image record of the master metadata. Stated for the
\* runs in which no shard raised.
C13_MasterGlobalIndexBijection ==
    (/\ Summarised
     /\ merger.skipped = <<>>
     /\ master.index = IndexBlob(merger.vectors)
     /\ master.meta = MasterMetaBlob(merger.documents, merger.source_indexes))
    => LET docs == master.meta.documents
       IN \A i \in 0..(Len(master.index.vectors) - 1) :
             Cardinality({r \in MasterRecords(docs) :
                            docs[r[1]].images[r[2]].global_index = i}) = 1

C15_SourcesAreAllShards ==
    merger.runs > 0 =>
        /\ MasterIndexKey \notin Sources
        /\ MasterMetaKey \notin Sources
        /\ Sources = {k \in ShardKeys : bucket[k].present}

\* the metadata file of a source is missing or is not JSON
Unreadable(info) == bucket[info.index_key].sidecar \in {"missing", "notjson"}

\* C16: a source whose metadata file is missing or unreadable is skipped and the
\* rebuild goes on: the run merges what it would merge without that source,
\* nothing of the source is in the master, and the run publishes when a vector
\* was merged.
C16_UnreadableShardSkipped ==
    [][merger'.runs # merger.runs =>
          LET all == SortByLastModified(AllIndexes(ListObjects))
              readable == SelectSeq(all, LAMBDA info : ~Unreadable(info))
              m == MergeAll(EmptyMaster, readable, 1)
          IN all # <<>> =>
                /\ merger'.vectors = m.vectors
                /\ merger'.documents = m.documents
                /\ merger'.source_indexes = m.source_indexes
                /\ \A i \in 1..Len(all) :
                      Unreadable(all[i]) =>
                         /\ \E j \in 1..Len(merger'.skipped) :
                               merger'.skipped[j] = all[i].index_key
                         /\ \A j \in 1..Len(merger'.vectors) :
                               merger'.vectors[j][1] # all[i].index_key
                         /\ \A j \in 1..Len(merger'.documents) :
                               merger'.documents[j].original_index # all[i].index_key
                         /\ \A j \in 1..Len(merger'.source_indexes) :
                               merger'.source_indexes[j].key # all[i].index_key
                /\ \A i \in 1..Len(readable) :
                      bucket[readable[i].index_key] \in
                            {RegularShard(readable[i].index_key, n, lm) :
                                n \in VectorCounts, lm \in Times}
                         => /\ \E j \in 1..Len(merger'.source_indexes) :
                                  merger'.source_indexes[j].key = readable[i].index_key
                            /\ merger'.pc = "upload_index"]_vars

\* a run skipped an unreadable first source, merged a later one and published
C16_SkippedAndPublished ==
    /\ Summarised
    /\ Len(merger.all_indexes) = 2
    /\ Unreadable(merger.all_indexes[1])
    /\ merger.skipped = <<merger.all_indexes[1].index_key>>
    /\ Len(merger.source_indexes) = 1
    /\ merger.source_indexes[1].key = merger.all_indexes[2].index_key
    /\ master.index = IndexBlob(merger.vectors)
    /\ master.meta = MasterMetaBlob(merger.documents, merger.source_indexes)

\* C17: a run that finds no eligible source returns 'No indexes to merge' with
\* status 200 and uploads nothing: the master blobs are left as they are, in that
\* step and until the next run.
C17_NoSourcesNoUpload ==
    [][/\ (merger'.runs # merger.runs /\ AllIndexes(ListObjects) = <<>>)
            => /\ merger'.response = [statusCode |-> 200, message |-> "No indexes to merge"]
               /\ merger'.pc = "idle"
               /\ master' = master
       /\ ("message" \in DOMAIN merger.response /\ merger'.runs = merger.runs)
            => master' = master]_vars

\* a run over an empty bucket has returned and the earlier master is still there
C17_MasterKept ==
    /\ \A k \in ShardKeys : ~bucket[k].present
    /\ merger.runs = 1
    /\ merger.response = [statusCode |-> 200, message |-> "No indexes to merge"]
    /\ master = PriorMaster

\* the source contributes no vector: it is empty, or its iteration raises before
\* the vectors are added
Contributes(k) ==
    /\ bucket[k].sidecar = "json"
    /\ bucket[k].n > 0
    /\ bucket[k].dim = MergerDimension

\* C18: a run that enumerated sources of which none contributed a vector uploads
\* nothing, leaves the master blobs as they are and returns status 400 with an
\* 'error' field.
C18_NothingMergedNoPublish ==
    [][/\ (/\ merger'.runs # merger.runs
           /\ AllIndexes(ListObjects) # <<>>
           /\ \A i \in 1..Len(AllIndexes(ListObjects)) :
                 ~Contributes(AllIndexes(ListObjects)[i].index_key))
            => /\ merger'.response = [statusCode |-> 400, error |-> "No vectors merged"]
               /\ merger'.pc = "idle"
               /\ master' = master
       /\ ("error" \in DOMAIN merger.response /\ merger'.runs = merger.runs)
            => master' = master
       /\ master' # master => merger.vectors # <<>>]_vars

\* a run over two sources that contributed nothing has returned the error and
\* the earlier master is still there
C18_ErrorMasterKept ==
    /\ Len(merger.all_indexes) = 2
    /\ merger.runs = 1
    /\ "error" \in DOMAIN merger.response
    /\ merger.response.statusCode = 400
    /\ master = PriorMaster

\* the number of vectors in the master when the run merged source k: the vectors
\* in front of the first vector of k
OffsetOf(k) == (CHOOSE p \in 1..Len(merger.vectors) : merger.vectors[p] = <<k, 1>>) - 1

\* the records of documents[a] come from an older source than those of documents[b]
Older(a, b) ==
    bucket[merger.documents[a].original_index].last_modified
       < bucket[merger.documents[b].original_index].last_modified

\* every record carries global_index = offset of its source + local index, and
\* the sources were merged in ascending last-modified order
OffsetsAndOrder ==
    /\ \A k \in 1..Len(merger.documents) :
          \A j \in 1..Len(merger.documents[k].images) :
             merger.documents[k].images[j].global_index
                = OffsetOf(merger.documents[k].original_index)
                  + merger.documents[k].images[j].index
    /\ \A i, j \in 1..Len(merger.source_indexes) :
          i < j => bucket[merger.source_indexes[i].key].last_modified
                      <= bucket[merger.source_indexes[j].key].last_modified
    /\ \A i, j \in 1..Len(merger.all_indexes) :
          i < j => merger.all_indexes[i].last_modified <= merger.all_indexes[j].last_modified

RECURSIVE SumVectors(_)
\* the vector counts of the merged sources, added up
SumVectors(source_indexes) ==
    IF source_indexes = <<>> THEN 0
    ELSE source_indexes[1].vectors + SumVectors(Tail(source_indexes))

\* C20: the summary of a publishing run reports totalVectors = sum of the vector
\* counts of the shards merged, totalDocuments = number of documents of the master
\* metadata, the number of shards merged and the number of shards skipped.
C20_SummaryCounts ==
    Summarised =>
        /\ merger.response.totalVectors = SumVectors(merger.source_indexes)
        /\ merger.response.totalDocuments = Len(merger.documents)
        /\ merger.response.mergedIndexes = Len(merger.source_indexes)
        /\ \E f \in DOMAIN merger.response
                     \ {"statusCode", "totalVectors", "totalDocuments", "mergedIndexes"} :
              merger.response[f] = Len(merger.skipped)

\* ------------------------------------------------- properties of the search-router
\* the request of the search is a JSON object with a query and a session id
WellFormed(q) == q.body = "object" /\ q.hasQuery /\ q.hasSession

\* the search-router returns a response in this step
Responds == search' # search /\ search'.pc = "done"

\* the last search returned a successful response
Succeeded == search.pc = "done" /\ search.statusCode = 200

\* C21: a search for a session whose index blob was never published returns 404
\* 'No documents indexed yet', never 500, and calls neither the embedding service
\* nor the answer model.
C21_NothingIndexedIsNotFound ==
    [][(Responds /\ WellFormed(search') /\ ~store[search'.sid].index.present)
          => /\ search'.statusCode = 404
             /\ search'.error = "No documents indexed yet"
             /\ search'.calls = {}
             /\ search.pc # "load_meta"]_vars

\* a well-formed search of the empty session has returned not-found
C21_NotFoundReturned ==
    /\ search.pc = "done"
    /\ WellFormed(search)
    /\ search.statusCode = 404
    /\ ~store[search.sid].index.present
    /\ ~store[search.sid].meta.present

\* C22: a successful search returns at most min(topK, index.count) sources, each
\* returned position contributes at most one source, and totalResults is the
\* number of sources.
C22_AtMostMinTopKSources ==
    Succeeded =>
        /\ Len(search.sources) <= Min(search.topK, Len(search.index))
        /\ \A i, j \in 1..Len(search.sources) :
              i # j => search.sources[i].pos # search.sources[j].pos
        /\ search.totalResults = Len(search.sources)

\* a search with topK = 2 of an index of one vector returned one source
C22_TopKAboveCount ==
    /\ Succeeded
    /\ search.topK = 2
    /\ Len(search.index) = 1
    /\ Len(search.sources) = 1
    /\ search.totalResults = 1

\* C23: the sources of a successful search are in the rank order of the similarity
\* search, each with the distance of its own position, so the distances are
\* non-decreasing from first to last source, also when positions were dropped.
C23_SourcesInRankOrder ==
    Succeeded =>
        /\ \A j \in 1..Len(search.sources) :
              \E i \in 1..Len(search.hits) :
                 /\ search.hits[i] = search.sources[j].pos
                 /\ search.sources[j].score = Distance(i)
        /\ \A j, k \in 1..Len(search.sources) :
              j < k => search.sources[j].score <= search.sources[k].score

\* a search dropped its nearest position and returned the second one, with the
\* distance of the second rank
C23_FirstPositionDropped ==
    /\ Succeeded
    /\ Len(search.hits) = 2
    /\ Len(search.sources) = 1
    /\ search.sources[1].pos = search.hits[2]
    /\ search.sources[1].score = Distance(2)

\* some record of the metadata carries the position
HasRecord(documents, idx) ==
    \E k \in 1..Len(documents) : \E j \in 1..Len(documents[k].images) :
       documents[k].images[j].index = idx

\* C24: a returned position without a matching record in the metadata is dropped
\* and does not fail the search: the sources are those of exactly the returned
\* positions that have a record.
C24_UnmatchedPositionDropped ==
    [][(search.pc = "load_meta" /\ search'.pc = "done" /\ search'.statusCode = 200)
          => LET docs == store[search.sid].meta.documents
             IN {search'.sources[j].pos : j \in 1..Len(search'.sources)}
                   = {search'.hits[i] : i \in {i \in 1..Len(search'.hits) :
                                                  HasRecord(docs, search'.hits[i])}}]_vars

\* a search returned a source for one of two positions; the other has no record
C24_OneOfTwoResolved ==
    /\ Succeeded
    /\ Len(search.hits) = 2
    /\ Len(search.sources) = 1
    /\ search.index = store[search.sid].index.vectors
    /\ \E i \in 1..2 : ~HasRecord(store[search.sid].meta.documents, search.hits[i])

\* C25: a failure of the answer model does not fail the search: whenever the
\* answer model was called, the response is successful and carries an answer.
C25_AnswerFailureKeepsSuccess ==
    (search.pc = "done" /\ "answer" \in search.calls)
       => search.statusCode = 200 /\ search.answer # ""

\* C26: when no image reaches the answer model, the answer is the fixed fallback
\* string, the model is not called, and the search returns 200 with the sources
\* it resolved.
C26_NoImagesFallback ==
    (/\ search.pc = "done"
     /\ "embedding" \in search.calls
     /\ search.error # "embedding"
     /\ search.images = 0)
    => /\ search.statusCode = 200
       /\ search.answer = FallbackAnswer
       /\ "answer" \notin search.calls
       /\ search.totalResults = Len(search.sources)

\* a search resolved a source, none of its images could be downloaded, and it
\* returned the fallback answer with the source
C26_SourcesWithoutImages ==
    /\ Succeeded
    /\ Len(search.sources) >= 1
    /\ search.images = 0
    /\ search.answer = FallbackAnswer

\* C27: search reports its failures with distinct outcomes; in particular
\* not-found (404) is returned only for a session without an index: an index that
\* exists and cannot be loaded is a server error.
C27_NotFoundOnlyWithoutIndex ==
    [][(Responds /\ search'.statusCode = 404)
          => ~(store[search'.sid].index.present /\ store[search'.sid].meta.present)]_vars

\* C28: a request whose body is not valid JSON returns 400 'Invalid JSON in request
\* body', a request without a query returns 400 'Query is required', and neither
\* loads an index or calls a service.
C28_BadRequestRejected ==
    (search.pc = "done" /\ ~search.hasQuery)
       => /\ search.statusCode = 400
          /\ search.body = "notjson" => search.error = "Invalid JSON in request body"
          /\ search.body \in {"nonobject", "object"} => search.error = "Query is required"
          /\ search.calls = {}
          /\ search.index = <<>>

\* ------------------------------------------------- properties of the event handling
\* the events the embed-worker takes in this step
Taken == events \ events'

\* C29: a first-page event with a key private/{userId}/{documentId}/page_0001.png
\* is processed: taking it starts an invocation that lists and embeds the
\* document's pages (and goes on to publish) or returns a response.
C29_LegacyFirstPageProcessed ==
    [][\A e \in Taken :
          (~IsSessionKey(e) /\ IsFirstPage(e))
             => \/ \E w \in Workers : inv'[w].pc # "idle" /\ inv'[w].doc = e.doc
                \/ \E r \in responses' \ responses : r.doc = e.doc]_vars

\* C30: an event of a page other than the first makes the handler return no result
\* and touch nothing, so an invocation that lists, downloads or uploads starts
\* only from a first-page event, and the session blobs change only in the uploads
\* of such an invocation.
C30_NonFirstPageIgnored ==
    [][/\ \A e \in Taken :
             ~IsFirstPage(e) => /\ store' = store
                                /\ inv' = inv
                                /\ responses' = responses
                                /\ started' = started
       /\ started' # started => \E e \in Taken : IsSessionKey(e) /\ e.page = 1
       /\ store' # store => \E w \in Workers : Publishing(w) /\ Steps(w)]_vars

\* the event of the second page of document A was taken and nothing happened:
\* no invocation started, nothing is published, the first-page event is pending
C30_SecondPageTaken ==
    /\ images["s1"]["A"] = 2
    /\ Key("s1", "A", 2) \notin events
    /\ Key("s1", "A", 1) \in events
    /\ started = 0
    /\ store["s1"] = EmptySession
    /\ responses = {}

\* ------------------------------------------------- properties of the merge response
\* the records the session metadata holds for document d
RecordsOfDoc(documents, d) ==
    IF HasDoc(documents, d)
    THEN documents[CHOOSE k \in 1..Len(documents) : documents[k].document_id = d].images
    ELSE <<>>

\* C31: a successful session merge returns vectorCount equal to the number of
\* vectors of the session index it published (the new global count) and pageCount
\* equal to the number of image records of the document just merged.
C31_ResponseCounts ==
    [][/\ \A w \in Workers :
             UploadsIndex(w) => /\ store'[inv[w].sid].index.vectors = inv[w].index
                                /\ inv'[w].index = inv[w].index
       /\ \A r \in responses' \ responses :
             r.statusCode = 200 =>
                \E w \in Workers :
                   /\ inv[w].pc = "upload_meta" /\ Steps(w)
                   /\ inv[w].sid = r.sid /\ inv[w].doc = r.doc
                   /\ r.vectorCount = Len(inv[w].index)
                   /\ r.pageCount = Len(RecordsOfDoc(store'[r.sid].meta.documents, r.doc))
                   /\ ~overlap => r.vectorCount = Len(store'[r.sid].index.vectors)]_vars

\* the two-page document A was merged after P: the response counts three vectors
\* and two pages
C31_ThreeVectorsTwoPages ==
    /\ \A w \in Workers : ~Busy(w)
    /\ ~overlap
    /\ ~fault
    /\ Len(store["s1"].index.vectors) = 3
    /\ Len(RecordsOfDoc(store["s1"].meta.documents, "A")) = 2
    /\ \E r \in Successes("s1") : r.doc = "A" /\ r.vectorCount = 3 /\ r.pageCount = 2

\* ------------------------------------------------- properties of the convert-worker
\* the convert-worker has handled an event and is not running
Converted == convert.runs > 0 /\ convert.pc = "idle"

Built(w) == inv[w].pc = "download_index"

\* C33: in the metadata the embed-worker builds for a document, the k-th image
\* record has index k (0-based, insertion order) and describes the page whose
\* vector is at position k of the document's vector index, also when the
\* embedding of some pages failed: record count = vector count.
C33_RecordsFollowVectors ==
    \A w \in Workers :
        Built(w) =>
           LET recs == inv[w].docmeta.images
           IN /\ Len(recs) = Len(inv[w].index)
              /\ \A k \in 1..Len(recs) :
                    /\ recs[k].index = k - 1
                    /\ recs[k].key = inv[w].index[recs[k].index + 1]
                    /\ recs[k].key[1] = inv[w].doc

\* the embedding of page 1 of the two-page document A failed: the only record
\* has index 0 and describes page 2
C33_FirstPageSkipped ==
    /\ Built(1)
    /\ images["s1"]["A"] = 2
    /\ inv[1].doc = "A"
    /\ inv[1].index = <<<<"A", 2>>>>
    /\ Len(inv[1].docmeta.images) = 1
    /\ inv[1].docmeta.images[1] = [key |-> <<"A", 2>>, index |-> 0]

\* ------------------------------------------------- properties of the load failure
\* invocation w publishes without having loaded the session index and metadata
LoadFailed(w) == Publishing(w) /\ ~inv[w].found

\* C34: whenever loading the existing session index fails at any step of the
\* load-and-merge block (download of either blob, reading the index, parsing the
\* metadata, a metadata without 'documents'), the merge starts from empty: the
\* published index holds exactly the new document's vectors and the published
\* metadata exactly the new document's records.
C34_LoadFailureStartsEmpty ==
    [][\A w \in Workers :
          (LoadFailed(w) /\ Steps(w)) =>
             /\ UploadsIndex(w) => store'[inv[w].sid].index = IndexBlob(OwnVectors(w))
             /\ (inv[w].pc = "upload_meta" /\ inv'[w].pc = "idle" /\ store' # store)
                   => store'[inv[w].sid].meta = MetaBlob(FreshMetadata(inv[w].docmeta))]_vars

\* ------------------------------------------------- properties of the search load
\* a search starts to load the session index in this step
StartsLoading == search.pc # "load_meta" /\ search'.pc = "load_meta"

OwnContent(s) ==
    /\ \A k \in 1..Len(store[s].meta.documents) : store[s].meta.documents[k].user_id = s
    /\ s \notin Active =>
          \A i \in 1..Len(store[s].index.vectors) : store[s].index.vectors[i][1] # PriorDoc

\* C36: merges for different sessions do not interfere: a merge for session S
\* reads and writes only blobs under sessions/S/, so what another session's
\* invocations do in between changes nothing of what it loads, merges and
\* publishes, and the blobs of a session change only by its own merges.
C36_SessionsIsolated ==
    [][/\ \A s \in Sessions :
             /\ OwnContent(s)'
             /\ store'[s] # store[s] =>
                   \E w \in Workers :
                      /\ inv[w].sid = s /\ Publishing(w) /\ Steps(w)
                      /\ \A o \in Sessions \ {s} : store'[o] = store[o]
                      /\ \/ store'[s] = [store[s] EXCEPT !.index = IndexBlob(inv[w].index)]
                         \/ store'[s] = [store[s] EXCEPT !.meta = MetaBlob(inv[w].documents)]
       /\ \A w \in Workers :
             /\ (~Busy(w) /\ Busy(w)') =>
                   /\ inv'[w].index = EmbedAll(ListImages(inv'[w].sid, inv'[w].doc),
                                               {inv'[w].index[i][2] : i \in 1..Len(inv'[w].index)})
                   /\ inv'[w].docmeta.user_id = inv'[w].sid
             /\ (inv[w].pc = "download_index" /\ inv'[w].pc = "download_meta")
                   => inv'[w].existing = store[inv[w].sid].index.vectors
             /\ (inv[w].pc = "download_index" /\ inv'[w].pc = "upload_index")
                   => inv'[w].index = OwnVectors(w)
             /\ (inv[w].pc = "download_meta" /\ inv'[w].pc = "upload_index")
                   => \/ /\ inv'[w].index = inv[w].existing \o OwnVectors(w)
                         /\ inv'[w].documents =
                               InsertDoc(store[inv[w].sid].meta.documents, inv[w].docmeta)
                      \/ /\ inv'[w].index = OwnVectors(w)
                         /\ inv'[w].documents = FreshMetadata(inv[w].docmeta)]_vars

\* two invocations of different sessions are between their two uploads at the
\* same time, and each session's index holds its own merge
C36_BothSessionsPublishing ==
    /\ inv[1].pc = "upload_meta" /\ inv[1].sid = "s1"
    /\ inv[2].pc = "upload_meta" /\ inv[2].sid = "s2"
    /\ store["s1"].index.vectors = <<<<PriorDoc, 1>>, <<"A", 1>>>>
    /\ store["s2"].index.vectors = <<<<"A", 1>>, <<"A", 2>>>>

\* ------------------------------------------------- properties of the page order
\* every event has been handled and no invocation is running
AllHandled == events = {} /\ \A w \in Workers : ~Busy(w)

\* the session index holds the vector of page p of document d, and the metadata
\* a record for it
Indexed(s, d, p) ==
    /\ \E i \in 1..Len(store[s].index.vectors) : store[s].index.vectors[i] = <<d, p>>
    /\ \E k \in 1..Len(store[s].meta.documents) :
          /\ store[s].meta.documents[k].document_id = d
          /\ \E j \in 1..Len(store[s].meta.documents[k].images) :
                store[s].meta.documents[k].images[j].key = <<d, p>>

\* C37: for a document whose page images are stored one after another, once the
\* events of all its pages have been handled (in any interleaving of page uploads
\* and event handling, no call having failed), the session index holds one vector
\* and one record for every page image of the document; no page is left out
\* because it was stored after the first-page event was handled.
C37_NoPageLeftOut ==
    (AllHandled /\ ~fault) =>
        \A s \in Active, d \in Docs : \A p \in 1..images[s][d] : Indexed(s, d, p)

\* ------------------------------------------------- properties of the shard iterations
\* the master after the first i iterations of the loop of the last run
AfterIteration(i) == MergeAll(EmptyMaster, SubSeq(merger.all_indexes, 1, i), 1)

\* C38: in a batch rebuild each source shard is merged all-or-nothing: after the
\* shard's loop iteration either all of its vectors are in the master index
\* together with a documents entry and a source_indexes entry for it, or the
\* master index, documents and source_indexes are exactly as before the iteration.
C38_ShardAllOrNothing ==
    (merger.runs > 0 /\ merger.all_indexes # <<>>) =>
        \A i \in 1..Len(merger.all_indexes) :
            LET key == merger.all_indexes[i].index_key
                before == AfterIteration(i - 1)
                after == AfterIteration(i)
            IN \/ /\ after.vectors = before.vectors
                  /\ after.documents = before.documents
                  /\ after.source_indexes = before.source_indexes
               \/ /\ after.vectors =
                        before.vectors \o [j \in 1..bucket[key].n |-> <<key, j>>]
                  /\ \E k \in 1..Len(after.documents) :
                        after.documents[k].original_index = key
                  /\ Len(after.source_indexes) = Len(before.source_indexes) + 1
                  /\ after.source_indexes[Len(after.source_indexes)].key = key

====
